---- MODULE Spec2Model ----
(***************************************************************************)
(* Model of tailwindcss-noise: the NoiseCache (file cache with a per-build *)
(* live set) and the 'noise' / 'noise-opacity' utilities, in the           *)
(* 2-parameter variant (src/index.js) and in the opacity variant           *)
(* (src/unnamed/part_000, lines 103-302).                                  *)
(*                                                                         *)
(* Strings are sequences of one-character strings.  A JavaScript number is *)
(* an integer count of 1/Scale units, so that non-integers reach           *)
(* Math.round; NaN is carried by a flag next to the number.                *)
(***************************************************************************)
EXTENDS Integers, Sequences, FiniteSets, TLC

VARIABLES variant, dirExists, dir, usedPatterns, phase, build, log,
          prevUsed, clock, pixel, race

vars == <<variant, dirExists, dir, usedPatterns, phase, build, log,
          prevUsed, clock, pixel, race>>

\* ------------------------------------------------------------------ bounds
MaxBuilds == 2
MaxCalls == 2
MaxOps == 4
MaxValLen == 5
ZMax == 3
MaxPixels == 2
MaxRaceCalls == 1
OpacitySlack == 3
Scale == 2

\* --------------------------------------------------------- string helpers
DigitChars == <<"0", "1", "2", "3", "4", "5", "6", "7", "8", "9">>

IsDigit(c) == \E i \in 1..10 : DigitChars[i] = c

DigitVal(c) == (CHOOSE i \in 1..10 : DigitChars[i] = c) - 1

IsSpace(c) == c = " "

RECURSIVE NatToStr(_)
NatToStr(n) ==
    IF n < 10 THEN <<DigitChars[n + 1]>>
    ELSE NatToStr(n \div 10) \o <<DigitChars[(n % 10) + 1]>>

\* String(n) for an integer n, as a template literal `${n}` formats it
IntToStr(n) == IF n < 0 THEN <<"-">> \o NatToStr(0 - n) ELSE NatToStr(n)

startsWith(s, p) == Len(s) >= Len(p) /\ SubSeq(s, 1, Len(p)) = p

endsWith(s, p) ==
    Len(s) >= Len(p) /\ SubSeq(s, Len(s) - Len(p) + 1, Len(s)) = p

includes(s, c) == \E i \in 1..Len(s) : s[i] = c

RECURSIVE trimStart(_)
trimStart(s) ==
    IF s # <<>> /\ IsSpace(s[1]) THEN trimStart(Tail(s)) ELSE s

RECURSIVE trimEnd(_)
trimEnd(s) ==
    IF s # <<>> /\ IsSpace(s[Len(s)])
    THEN trimEnd(SubSeq(s, 1, Len(s) - 1)) ELSE s

trim(s) == trimEnd(trimStart(s))

RECURSIVE split(_, _)
split(s, sep) ==
    IF ~includes(s, sep) THEN <<s>>
    ELSE LET i == CHOOSE k \in 1..Len(s) :
                      s[k] = sep /\ \A j \in 1..(k - 1) : s[j] # sep
         IN <<SubSeq(s, 1, i - 1)>> \o split(SubSeq(s, i + 1, Len(s)), sep)

\* ---------------------------------------------------------------- numbers
NaN == [nan |-> TRUE, v |-> 0]

Num(n) == [nan |-> FALSE, v |-> n * Scale]

RECURSIVE DigitPrefix(_)
DigitPrefix(s) ==
    IF s # <<>> /\ IsDigit(s[1]) THEN <<s[1]>> \o DigitPrefix(Tail(s))
    ELSE <<>>

RECURSIVE DigitsToNat(_)
DigitsToNat(ds) ==
    IF ds = <<>> THEN 0
    ELSE 10 * DigitsToNat(SubSeq(ds, 1, Len(ds) - 1)) + DigitVal(ds[Len(ds)])

\* parseInt(str), radix 10: leading white space skipped, optional sign, then
\* the longest run of digits; NaN when that run is empty.  (The alphabets
\* used here hold no "x", so the 0x prefix never occurs.)
parseInt(str) ==
    LET s0 == trimStart(str)
        neg == s0 # <<>> /\ s0[1] = "-"
        s1 == IF s0 # <<>> /\ s0[1] \in {"-", "+"} THEN Tail(s0) ELSE s0
        ds == DigitPrefix(s1)
    IN IF ds = <<>> THEN NaN
       ELSE Num(IF neg THEN 0 - DigitsToNat(ds) ELSE DigitsToNat(ds))

isNaN(x) == x.nan

\* Math.round on a number held in 1/Scale units: floor(x + 1/2)
MathRound(x) == ((2 * x) + Scale) \div (2 * Scale)


\* ------------------------------------------------------------ file names
NoisePrefix == <<"n", "o", "i", "s", "e", "-">>

PngSuffix == <<".", "p", "n", "g">>

Dash == <<"-">>

\* getFilename truncating instead of rounding
getFilenameFloor(mean, stdDev) ==
    NoisePrefix \o IntToStr(mean \div Scale) \o Dash
        \o IntToStr(stdDev \div Scale) \o PngSuffix

\* getFilename without the separator between the components
getFilenameNoSeparator(mean, stdDev) ==
    NoisePrefix \o IntToStr(MathRound(mean))
        \o IntToStr(MathRound(stdDev)) \o PngSuffix

\* NoiseCache.getFilename(mean, stdDev), 2-parameter variant
getFilename(mean, stdDev) ==
    NoisePrefix \o IntToStr(MathRound(mean)) \o Dash
        \o IntToStr(MathRound(stdDev)) \o PngSuffix

\* NoiseCache.getFilename(mean, stdDev, opacity), opacity variant
getFilenameOp(mean, stdDev, opacity) ==
    NoisePrefix \o IntToStr(MathRound(mean)) \o Dash
        \o IntToStr(MathRound(stdDev)) \o Dash
        \o IntToStr(MathRound(opacity)) \o PngSuffix

\* the filename of a parameter tuple in the running variant
FilenameOf(p) ==
    IF variant = 2 THEN getFilename(p[1], p[2])
    ELSE getFilenameOp(p[1], p[2], p[3])

\* ------------------------------------------------------------- NoiseCache
\* The output directory is a function from entry names to the stamp of the
\* write that produced the entry (0 for entries older than the first build).
\* The pixels are random, so two writes never give the same content: the
\* stamp stands for both the content and the modification time.

Remove(d, names) == [f \in (DOMAIN d) \ names |-> d[f]]

Put(d, name, stamp) ==
    [f \in (DOMAIN d) \cup {name} |-> IF f = name THEN stamp ELSE d[f]]

\* a constructor that keeps the live set of the cache before it
constructorKeepsLive(present, mkdirOk) ==
    [dirExists |-> present \/ mkdirOk,
     used |-> usedPatterns,
     threw |-> ~present /\ ~mkdirOk]

\* constructor: usedPatterns = new Set(); mkdirSync when the directory is
\* absent (mkdirOk = FALSE: mkdirSync throws)
constructor(present, mkdirOk) ==
    [dirExists |-> present \/ mkdirOk,
     used |-> {},
     threw |-> ~present /\ ~mkdirOk]

\* exists(...): fs.existsSync(getFilePath(getFilename(...)))
exists(d, p) == FilenameOf(p) \in DOMAIN d

\* generate without the exists check
generateAlwaysWrites(d, used, p, writeOk, stamp) ==
    LET filename == FilenameOf(p)
        used1 == used \cup {filename}
    IN IF writeOk
       THEN [dir |-> Put(d, filename, stamp), used |-> used1,
             ret |-> filename, wrote |-> {filename}, threw |-> FALSE]
       ELSE [dir |-> d, used |-> used1,
             ret |-> <<>>, wrote |-> {}, threw |-> TRUE]

\* generate that marks the filename live on a miss only
generateMarksOnMiss(d, used, p, writeOk, stamp) ==
    LET filename == FilenameOf(p)
    IN IF filename \notin DOMAIN d
       THEN IF writeOk
            THEN [dir |-> Put(d, filename, stamp),
                  used |-> used \cup {filename},
                  ret |-> filename, wrote |-> {filename}, threw |-> FALSE]
            ELSE [dir |-> d, used |-> used \cup {filename},
                  ret |-> <<>>, wrote |-> {}, threw |-> TRUE]
       ELSE [dir |-> d, used |-> used,
             ret |-> filename, wrote |-> {}, threw |-> FALSE]

\* generate(...): mark live, write on a miss (writeOk = FALSE:
\* writeFileSync throws and leaves no file), return the filename
generate(d, used, p, writeOk, stamp) ==
    LET filename == FilenameOf(p)
        used1 == used \cup {filename}
    IN IF ~exists(d, p)
       THEN IF writeOk
            THEN [dir |-> Put(d, filename, stamp), used |-> used1,
                  ret |-> filename, wrote |-> {filename}, threw |-> FALSE]
            ELSE [dir |-> d, used |-> used1,
                  ret |-> <<>>, wrote |-> {}, threw |-> TRUE]
       ELSE [dir |-> d, used |-> used1,
             ret |-> filename, wrote |-> {}, threw |-> FALSE]

\* cleanup targets without the usedPatterns test
cleanupTargetsIgnoringLive(d, used) ==
    {file \in DOMAIN d :
        startsWith(file, NoisePrefix) /\ endsWith(file, PngSuffix)}

\* cleanup targets chosen by the prefix alone
cleanupTargetsPrefixOnly(d, used) ==
    {file \in DOMAIN d : startsWith(file, NoisePrefix) /\ file \notin used}

\* the entries cleanup() unlinks
cleanupTargets(d, used) ==
    {file \in DOMAIN d :
        /\ startsWith(file, NoisePrefix) /\ endsWith(file, PngSuffix)
        /\ file \notin used}

\* a cleanup that unlinks nothing
cleanupDeletesNothing(d, used, failed) ==
    [dir |-> d, used |-> {}, deleted |-> {}, threw |-> FALSE]

\* cleanup(): unlink every target, then clear the live set.  failed is the
\* set of targets not yet unlinked when unlinkSync throws ({}: no failure);
\* a throw leaves the forEach, so the live set is not cleared.
cleanup(d, used, failed) ==
    LET targets == cleanupTargets(d, used)
    IN IF failed = {}
       THEN [dir |-> Remove(d, targets), used |-> {},
             deleted |-> targets, threw |-> FALSE]
       ELSE [dir |-> Remove(d, targets \ failed), used |-> used,
             deleted |-> targets \ failed, threw |-> TRUE]


\* ---------------------------------------------------------- declarations
Url(filename) == <<"url('/noise-patterns/">> \o filename \o <<"')">>

NoDecl == [none |-> TRUE]

defaultMean == 128

defaultStdDev == 20

defaultMeanOp == 128

defaultStdDevOp == 50

defaultOpacity == 5

DefaultParams ==
    IF variant = 2 THEN <<Num(defaultMean).v, Num(defaultStdDev).v>>
    ELSE <<Num(defaultMeanOp).v, Num(defaultStdDevOp).v,
           Num(defaultOpacity).v>>

\* addBase '.noise' rule of the 2-parameter variant
noiseBaseRule ==
    [noiseMean |-> Num(defaultMean).v,
     noiseDev |-> Num(defaultStdDev).v,
     position |-> "relative",
     isolation |-> "isolate",
     before |-> [content |-> "\"\"", position |-> "absolute",
                 top |-> "0", left |-> "0",
                 width |-> "100%", height |-> "100%",
                 backgroundImage |->
                     Url(getFilename(Num(defaultMean).v,
                                     Num(defaultStdDev).v)),
                 backgroundRepeat |-> "repeat",
                 pointerEvents |-> "none",
                 zIndex |-> "0",
                 opacity |-> "var(--noise-opacity, 0.05)"],
     children |-> [zIndex |-> "10"]]

\* the declaration returned by the try branch of the 'noise' utility
noiseDecl(mean, stdDev, filename) ==
    [noiseMean |-> mean,
     noiseDev |-> stdDev,
     position |-> "relative",
     isolation |-> "isolate",
     before |-> [content |-> "\"\"", position |-> "absolute",
                 top |-> "0", left |-> "0",
                 width |-> "100%", height |-> "100%",
                 backgroundImage |-> Url(filename),
                 backgroundRepeat |-> "repeat",
                 pointerEvents |-> "none",
                 zIndex |-> "0",
                 opacity |-> "var(--noise-opacity, 0.05)"],
     children |-> [zIndex |-> "10"]]

\* the declaration returned by the catch branch of the 'noise' utility
noiseFallbackDecl(filename) ==
    [noiseMean |-> Num(defaultMean).v,
     noiseDev |-> Num(defaultStdDev).v,
     position |-> "relative",
     isolation |-> "isolate",
     before |-> [content |-> "\"\"", position |-> "absolute",
                 top |-> "0", left |-> "0",
                 width |-> "100%", height |-> "100%",
                 backgroundImage |-> Url(filename),
                 backgroundRepeat |-> "repeat",
                 pointerEvents |-> "none",
                 zIndex |-> "-1",
                 opacity |-> "var(--noise-opacity, 0.2)"],
     children |-> [zIndex |-> "10"]]

\* noiseClassBase(filename) of the opacity variant
noiseClassBase(filename) ==
    [backgroundImage |-> Url(filename), backgroundRepeat |-> "repeat"]

\* the declaration of the 'noise-opacity' utility
noiseOpacityDecl(value) == [noiseOpacity |-> value]

\* the file a declaration's background image points at
DeclFile(decl) ==
    LET bg == IF variant = 2 THEN decl.before.backgroundImage
              ELSE decl.backgroundImage
    IN SubSeq(bg, 2, Len(bg) - 1)

\* ----------------------------------------------------------- utility values
\* What the host hands to a utility: a string, undefined, or a truthy
\* non-string (a number such as 5, which has no includes method).
Str(s) == [t |-> "string", s |-> s]

Undefined == [t |-> "undefined", s |-> <<>>]

NonString == [t |-> "number", s |-> <<>>]

Comma == ","

\* value.split(',').map(v => v.trim())
Components(s) ==
    LET parts == split(s, Comma)
    IN [i \in 1..Len(parts) |-> trim(parts[i])]

Rejected == [ok |-> FALSE, p |-> <<>>]

\* 'noise' utility, lines 175-185 of index.js: the parameters of a value,
\* or ok = FALSE when the try block throws before generate
parseValue(value) ==
    IF value.t # "string" THEN Rejected
    ELSE IF value.s = <<>> \/ ~includes(value.s, Comma) THEN Rejected
    ELSE LET c == Components(value.s)
             mean == parseInt(c[1])
             stdDev == parseInt(c[2])
         IN IF isNaN(mean) \/ isNaN(stdDev) THEN Rejected
            ELSE [ok |-> TRUE, p |-> <<mean.v, stdDev.v>>]

\* parseValueOp with the upper opacity bound off by one
parseValueOpOffByOne(value) ==
    IF value.t # "string" THEN Rejected
    ELSE IF value.s = <<>> \/ ~includes(value.s, Comma) THEN Rejected
    ELSE LET c == Components(value.s)
         IN IF Len(c) < 3 THEN Rejected
            ELSE LET mean == parseInt(trim(c[1]))
                     stdDev == parseInt(trim(c[2]))
                     opacity == parseInt(trim(c[3]))
                 IN IF isNaN(mean) \/ isNaN(stdDev) \/ isNaN(opacity)
                    THEN Rejected
                    ELSE IF opacity.v < Num(0).v \/ opacity.v >= Num(100).v
                    THEN Rejected
                    ELSE [ok |-> TRUE, p |-> <<mean.v, stdDev.v, opacity.v>>]

\* 'noise' utility of the opacity variant, lines 259-275: a missing third
\* component is undefined, and undefined.trim() throws a TypeError
parseValueOp(value) ==
    IF value.t # "string" THEN Rejected
    ELSE IF value.s = <<>> \/ ~includes(value.s, Comma) THEN Rejected
    ELSE LET c == Components(value.s)
         IN IF Len(c) < 3 THEN Rejected
            ELSE LET mean == parseInt(trim(c[1]))
                     stdDev == parseInt(trim(c[2]))
                     opacity == parseInt(trim(c[3]))
                 IN IF isNaN(mean) \/ isNaN(stdDev) \/ isNaN(opacity)
                    THEN Rejected
                    ELSE IF opacity.v < Num(0).v \/ opacity.v > Num(100).v
                    THEN Rejected
                    ELSE [ok |-> TRUE, p |-> <<mean.v, stdDev.v, opacity.v>>]


\* ------------------------------------------------------------- build log
\* log is the record of the calls of the running build (of the cache
\* object in SpecCache), oldest first: one entry per cache call and one per
\* rule or declaration handed to the host.  pre is the directory a cleanup
\* found, content the stamp of the file a generate returned.
Blank ==
    [op |-> "", p |-> <<>>, value |-> Undefined, ret |-> <<>>,
     wrote |-> {}, deleted |-> {}, threw |-> FALSE, decl |-> NoDecl,
     caught |-> FALSE, fsErr |-> FALSE, pre |-> <<>>, content |-> 0 - 1]

NewEntry(c) == [Blank EXCEPT !.op = "new", !.threw = c.threw,
                             !.fsErr = c.threw]

CleanupEntry(d, cl) ==
    [Blank EXCEPT !.op = "cleanup", !.deleted = cl.deleted,
                  !.threw = cl.threw, !.fsErr = cl.threw, !.pre = d]

GenEntry(p, g) ==
    [Blank EXCEPT !.op = "generate", !.p = p, !.ret = g.ret,
                  !.wrote = g.wrote, !.threw = g.threw, !.fsErr = g.threw,
                  !.content = IF g.threw THEN 0 - 1 ELSE g.dir[g.ret]]

BaseEntry(decl) == [Blank EXCEPT !.op = "addBase", !.decl = decl]

NoiseEntry(value, decl, caught, fsErr, threw) ==
    [Blank EXCEPT !.op = "noise", !.value = value, !.decl = decl,
                  !.caught = caught, !.fsErr = fsErr, !.threw = threw]

OpacityEntry(value, decl) ==
    [Blank EXCEPT !.op = "noise-opacity", !.value = value, !.decl = decl]

Calls(l) ==
    Cardinality({i \in 1..Len(l) : l[i].op \in {"noise", "noise-opacity"}})

Writes(entries) ==
    Cardinality({i \in 1..Len(entries) : entries[i].wrote # {}})

\* ---------------------------------------------------- the 'noise' utility
\* a catch branch that rethrows
noiseCatchRethrows(value, d, used, writeOk, stamp, before, fsErr) ==
    [dir |-> d, used |-> used, threw |-> TRUE,
     entries |-> before \o <<NoiseEntry(value, NoDecl, TRUE, fsErr, TRUE)>>]

\* catch branch, index.js lines 212-239: generate the default pattern and
\* return the fallback declaration; a throw of that generate escapes
noiseCatch(value, d, used, writeOk, stamp, before, fsErr) ==
    LET g == generate(d, used, DefaultParams, writeOk, stamp)
    IN IF g.threw
       THEN [dir |-> g.dir, used |-> g.used, threw |-> TRUE,
             entries |-> before \o
                 <<GenEntry(DefaultParams, g),
                   NoiseEntry(value, NoDecl, TRUE, TRUE, TRUE)>>]
       ELSE [dir |-> g.dir, used |-> g.used, threw |-> FALSE,
             entries |-> before \o
                 <<GenEntry(DefaultParams, g),
                   NoiseEntry(value, noiseFallbackDecl(g.ret), TRUE,
                              fsErr, FALSE)>>]

\* 'noise' utility, index.js lines 173-240
noiseUtility(value, d, used, writeOk, stamp) ==
    LET r == parseValue(value)
    IN IF r.ok
       THEN LET g == generate(d, used, r.p, writeOk, stamp)
            IN IF ~g.threw
               THEN [dir |-> g.dir, used |-> g.used, threw |-> FALSE,
                     entries |->
                         <<GenEntry(r.p, g),
                           NoiseEntry(value,
                                      noiseDecl(r.p[1], r.p[2], g.ret),
                                      FALSE, FALSE, FALSE)>>]
               ELSE noiseCatch(value, g.dir, g.used, writeOk, stamp,
                               <<GenEntry(r.p, g)>>, TRUE)
       ELSE noiseCatch(value, d, used, writeOk, stamp, <<>>, FALSE)

\* catch branch of the opacity variant, lines 281-288: no generate call
noiseCatchOp(value, d, used, before, fsErr) ==
    [dir |-> d, used |-> used, threw |-> FALSE,
     entries |-> before \o
         <<NoiseEntry(value,
                      noiseClassBase(getFilenameOp(Num(defaultMeanOp).v,
                                                   Num(defaultStdDevOp).v,
                                                   Num(defaultOpacity).v)),
                      TRUE, fsErr, FALSE)>>]

\* 'noise' utility of the opacity variant, lines 257-289
noiseUtilityOp(value, d, used, writeOk, stamp) ==
    LET r == parseValueOp(value)
    IN IF r.ok
       THEN LET g == generate(d, used, r.p, writeOk, stamp)
            IN IF ~g.threw
               THEN [dir |-> g.dir, used |-> g.used, threw |-> FALSE,
                     entries |->
                         <<GenEntry(r.p, g),
                           NoiseEntry(value,
                               noiseClassBase(
                                   getFilenameOp(r.p[1], r.p[2], r.p[3])),
                               FALSE, FALSE, FALSE)>>]
               ELSE noiseCatchOp(value, g.dir, g.used,
                                 <<GenEntry(r.p, g)>>, TRUE)
       ELSE noiseCatchOp(value, d, used, <<>>, FALSE)

\* plugin initialisation with cleanup after the default generate
pluginInitCleanupLast(present, d, mkdirOk, failed, writeOk, stamp) ==
    LET c == constructor(present, mkdirOk)
        g == generate(d, c.used, DefaultParams, TRUE, stamp)
        cl == cleanup(g.dir, g.used, {})
    IN [dirExists |-> TRUE, dir |-> cl.dir, used |-> cl.used,
        threw |-> FALSE,
        entries |-> <<NewEntry(c), GenEntry(DefaultParams, g),
                      CleanupEntry(g.dir, cl),
                      BaseEntry(IF variant = 2 THEN noiseBaseRule
                                ELSE noiseClassBase(FilenameOf(DefaultParams)))>>]

\* plugin initialisation without the default generate
pluginInitNoDefault(present, d, mkdirOk, failed, writeOk, stamp) ==
    LET c == constructor(present, mkdirOk)
        cl == cleanup(d, c.used, {})
    IN [dirExists |-> TRUE, dir |-> cl.dir, used |-> cl.used,
        threw |-> FALSE,
        entries |-> <<NewEntry(c), CleanupEntry(d, cl),
                      BaseEntry(IF variant = 2 THEN noiseBaseRule
                                ELSE noiseClassBase(FilenameOf(DefaultParams)))>>]

\* --------------------------------------------------- plugin initialisation
\* new NoiseCache(); cache.cleanup(); cache.generate(defaults); addBase.
\* Any throw leaves the plugin function: the build fails.
pluginInit(present, d, mkdirOk, failed, writeOk, stamp) ==
    LET c == constructor(present, mkdirOk)
    IN IF c.threw
       THEN [dirExists |-> c.dirExists, dir |-> d, used |-> c.used,
             threw |-> TRUE, entries |-> <<NewEntry(c)>>]
       ELSE
       LET cl == cleanup(d, c.used, failed)
       IN IF cl.threw
          THEN [dirExists |-> c.dirExists, dir |-> cl.dir, used |-> cl.used,
                threw |-> TRUE,
                entries |-> <<NewEntry(c), CleanupEntry(d, cl)>>]
          ELSE
          LET g == generate(cl.dir, cl.used, DefaultParams, writeOk, stamp)
              base == IF variant = 2 THEN noiseBaseRule
                      ELSE noiseClassBase(
                               getFilenameOp(Num(defaultMeanOp).v,
                                             Num(defaultStdDevOp).v,
                                             Num(defaultOpacity).v))
          IN IF g.threw
             THEN [dirExists |-> c.dirExists, dir |-> g.dir, used |-> g.used,
                   threw |-> TRUE,
                   entries |-> <<NewEntry(c), CleanupEntry(d, cl),
                                 GenEntry(DefaultParams, g)>>]
             ELSE [dirExists |-> c.dirExists, dir |-> g.dir, used |-> g.used,
                   threw |-> FALSE,
                   entries |-> <<NewEntry(c), CleanupEntry(d, cl),
                                 GenEntry(DefaultParams, g),
                                 BaseEntry(base)>>]


\* ------------------------------------------------------------------ inputs
\* the values the builds of Spec resolve: the preset "100,20", a literal
\* with three components, the opacity preset "100,20,5" and the unparsable
\* "abc"
Values ==
    {Str(<<"1", "0", "0", ",", "2", "0">>), Str(<<"1", ",", "2", ",", "3">>), Str(<<"1", "0", "0", ",", "2", "0", ",", "5">>), Str(<<"a", "b", "c">>)}

Alphabet == {"1", "-", ",", " ", "a"}

\* every string over Alphabet of length n or less
StringsUpTo(n) == UNION {[1..k -> Alphabet] : k \in 0..n}

\* the decimal numeral of an integer between -999 and 999
Numeral(o) ==
    LET n == IF o < 0 THEN 0 - o ELSE o
        ds == IF n < 10 THEN <<DigitChars[n + 1]>>
              ELSE IF n < 100
              THEN <<DigitChars[(n \div 10) + 1], DigitChars[(n % 10) + 1]>>
              ELSE <<DigitChars[(n \div 100) + 1],
                     DigitChars[((n \div 10) % 10) + 1],
                     DigitChars[(n % 10) + 1]>>
    IN IF o < 0 THEN <<"-">> \o ds ELSE ds

\* "7,9,<o>" for every o from below 0 to above 100
OpacityTuples ==
    {<<"7", ",", "9", ",">> \o Numeral(o) :
        o \in (0 - OpacitySlack)..(100 + OpacitySlack)}

\* literals with a fractional, a suffixed, a padded, a missing component
OddLiterals ==
    {<<"1", ".", "5", ",", "2">>, <<"1", "2", "a", ",", "3">>, <<" ", "5", " ", ",", " ", "6", " ">>, <<"1", "2", "8", ",", "2", "0">>, <<"1", "2", "8", ",", "5", "0", ",", "5">>, <<"1", ",", "2", ",", "3", ",", "4">>, <<"7">>}

WideValues ==
    {Str(s) : s \in StringsUpTo(MaxValLen) \cup OpacityTuples
                        \cup OddLiterals}
        \cup Values \cup {Undefined, NonString}

OpacityValues == {"0.05", "0.5"}

\* parameters handed to the cache directly: numbers around 1, a half apart
\* at most, so that distinct tuples round to the same integers
CacheParams ==
    {IF variant = 2 THEN <<m, Scale>> ELSE <<m, Scale, Num(defaultOpacity).v>> :
        m \in (Scale - 1)..(Scale + 1)}

\* what the output directory may hold before the first build
InitNames ==
    {FilenameOf(DefaultParams), <<"r", "e", "a", "d", "m", "e", ".", "t", "x", "t">>, <<"n", "o", "i", "s", "e", "-", "x", ".", "t", "x", "t">>}

\* --------------------------------------------------------- pixel generation
\* One pixel of generateNoisePattern's loop.  Z, mean, stdDev and opacity
\* are counts of 1/Scale, so Z * stdDev counts 1/(Scale * Scale).
ChannelMax == 255

PercentBase == 100

Min(a, b) == IF a < b THEN a ELSE b

Max(a, b) == IF a > b THEN a ELSE b

\* Math.floor of x counted in 1/unit
MathFloor(x, unit) == x \div unit

\* a store that drops the fraction
ToUint8ClampTruncates(num, den) == Min(ChannelMax, Max(0, num \div den))

\* a store of num/den into a Uint8ClampedArray element: the nearest
\* integer, the even one of two equally near, clamped to 0..255
ToUint8Clamp(num, den) ==
    LET q == num \div den
        r == num % den
        nearest == IF 2 * r < den THEN q
                   ELSE IF 2 * r > den THEN q + 1
                   ELSE IF q % 2 = 0 THEN q ELSE q + 1
    IN Min(ChannelMax, Max(0, nearest))

\* Math.min(255, Math.max(0, Math.floor((Z * stdDev) + mean)))
pixelValue(Z, mean, stdDev) ==
    Min(ChannelMax,
        Max(0, MathFloor((Z * stdDev) + (mean * Scale), Scale * Scale)))

\* data[i .. i + 3] of the 2-parameter variant
generateNoisePattern(Z, mean, stdDev) ==
    LET v == pixelValue(Z, mean, stdDev)
    IN <<ToUint8Clamp(v, 1), ToUint8Clamp(v, 1), ToUint8Clamp(v, 1),
         ToUint8Clamp(ChannelMax, 1)>>

\* data[i .. i + 3] of the opacity variant: alpha is 255 * (opacity / 100)
generateNoisePatternOp(Z, mean, stdDev, opacity) ==
    LET v == pixelValue(Z, mean, stdDev)
    IN <<ToUint8Clamp(v, 1), ToUint8Clamp(v, 1), ToUint8Clamp(v, 1),
         ToUint8Clamp(ChannelMax * opacity, PercentBase * Scale)>>

PixelOf(Z, p) ==
    IF variant = 2 THEN generateNoisePattern(Z, p[1], p[2])
    ELSE generateNoisePatternOp(Z, p[1], p[2], p[3])

\* no pixel written yet
NoPixel == [none |-> TRUE]

\* the samples randn_bm may return, ZMax in magnitude at most
PixelSamples == (0 - (ZMax * Scale))..(ZMax * Scale)

PixelMeans == {Num(n).v : n \in {0 - 3, 128, 254}} \cup {Num(128).v + 1}

PixelStdDevs == {Num(n).v : n \in {0 - 20, 0, 50}} \cup {1}

PixelOpacities == {Num(o).v : o \in 0..PercentBase}

PixelParams ==
    IF variant = 2 THEN {<<m, s>> : m \in PixelMeans, s \in PixelStdDevs}
    ELSE {<<m, s, o>> : m \in PixelMeans, s \in PixelStdDevs,
                        o \in PixelOpacities}

\* ------------------------------------------- two builds, one directory
\* Two plugin runs in two processes share the output directory; each has
\* its own NoiseCache.  race holds, per build: pc, the next filesystem
\* call; used, its live set; files, the readdirSync result cleanup still
\* has to visit; cur, the filename generate is working on; decls, the
\* filenames of the declarations it has returned; wrote and unlinked, the
\* files it has written and deleted; calls, the utilities it has resolved.
Builds == {1, 2}

Other(b) == CHOOSE o \in Builds : o # b

RaceInit ==
    [pc |-> [b \in Builds |-> "new"],
     used |-> [b \in Builds |-> {}],
     files |-> [b \in Builds |-> {}],
     cur |-> [b \in Builds |-> <<>>],
     decls |-> [b \in Builds |-> {}],
     wrote |-> [b \in Builds |-> {}],
     unlinked |-> [b \in Builds |-> {}],
     calls |-> [b \in Builds |-> 0]]

\* ------------------------------------------------------------------- Init
Init ==
    /\ variant \in {2, 3}
    /\ dirExists \in BOOLEAN
    /\ dir \in IF dirExists
               THEN {[f \in names |-> 0] : names \in SUBSET InitNames}
               ELSE {[f \in {} |-> 0]}
    /\ usedPatterns = {}
    /\ phase = "idle"
    /\ build = 0
    /\ log = <<>>
    /\ prevUsed = {}
    /\ clock = 0
    /\ pixel = NoPixel
    /\ race = RaceInit

\* ---------------------------------------------------------------- actions
\* one build starts: the host calls the plugin function
PluginInit(mkdirOk, failed, writeOk, maxBuilds) ==
    /\ phase \in {"idle", "ready", "failed"}
    /\ build < maxBuilds
    /\ dirExists => mkdirOk
    /\ failed \subseteq cleanupTargets(dir, {})
    /\ LET r == pluginInit(dirExists, dir, mkdirOk, failed, writeOk,
                           clock + 1)
       IN /\ dirExists' = r.dirExists
          /\ dir' = r.dir
          /\ usedPatterns' = r.used
          /\ log' = r.entries
          /\ phase' = IF r.threw THEN "failed" ELSE "ready"
          /\ clock' = clock + Writes(r.entries)
    /\ build' = build + 1
    /\ prevUsed' = usedPatterns
    /\ UNCHANGED <<pixel, race, variant>>

\* utilities are resolved after a successful initialisation
Resolving(maxCalls) == phase = "ready" /\ Calls(log) < maxCalls

\* the host resolves a 'noise' class
NoiseUtility(value, writeOk, maxCalls) ==
    /\ Resolving(maxCalls)
    /\ LET r == IF variant = 2
                THEN noiseUtility(value, dir, usedPatterns, writeOk,
                                  clock + 1)
                ELSE noiseUtilityOp(value, dir, usedPatterns, writeOk,
                                    clock + 1)
       IN /\ dir' = r.dir
          /\ usedPatterns' = r.used
          /\ log' = log \o r.entries
          /\ phase' = IF r.threw THEN "failed" ELSE "ready"
          /\ clock' = clock + Writes(r.entries)
    /\ UNCHANGED <<pixel, race, variant, dirExists, build, prevUsed>>

\* a 'noise-opacity' utility that asks the cache for a pattern
NoiseOpacityUtilityGenerates(value, maxCalls) ==
    /\ variant = 2
    /\ Resolving(maxCalls)
    /\ LET g == generate(dir, usedPatterns, <<0, 0>>, TRUE, clock + 1)
       IN /\ dir' = g.dir
          /\ usedPatterns' = g.used
          /\ clock' = clock + Cardinality(g.wrote)
          /\ log' = Append(log, OpacityEntry(value, noiseOpacityDecl(value)))
    /\ UNCHANGED <<pixel, race, variant, dirExists, phase, build, prevUsed>>

\* the host resolves a 'noise-opacity' class (index.js only)
NoiseOpacityUtility(value, maxCalls) ==
    /\ variant = 2
    /\ Resolving(maxCalls)
    /\ log' = Append(log, OpacityEntry(value, noiseOpacityDecl(value)))
    /\ UNCHANGED <<pixel, race, variant, dirExists, dir, usedPatterns, phase, build,
                   prevUsed, clock>>

Next ==
    \/ \E mkdirOk \in BOOLEAN, failed \in SUBSET DOMAIN dir,
          writeOk \in BOOLEAN :
           PluginInit(mkdirOk, failed, writeOk, MaxBuilds)
    \/ /\ Resolving(MaxCalls)
       /\ \E value \in Values, writeOk \in BOOLEAN :
              NoiseUtility(value, writeOk, MaxCalls)
    \/ \E value \in OpacityValues : NoiseOpacityUtility(value, MaxCalls)

Spec == Init /\ [][Next]_vars

\* one build resolving one value, drawn from the wide set
NextWide ==
    \/ \E mkdirOk \in BOOLEAN, failed \in SUBSET DOMAIN dir,
          writeOk \in BOOLEAN :
           PluginInit(mkdirOk, failed, writeOk, 1)
    \/ /\ Resolving(1)
       /\ \E value \in WideValues, writeOk \in BOOLEAN :
              NoiseUtility(value, writeOk, 1)
    \/ \E value \in OpacityValues : NoiseOpacityUtility(value, 1)

SpecWide == Init /\ [][NextWide]_vars

\* ------------------------------------------- the cache object on its own
CacheNew(mkdirOk) ==
    /\ phase = "idle"
    /\ dirExists => mkdirOk
    /\ LET c == constructor(dirExists, mkdirOk)
       IN /\ dirExists' = c.dirExists
          /\ usedPatterns' = c.used
          /\ log' = <<NewEntry(c)>>
          /\ phase' = IF c.threw THEN "failed" ELSE "cache"
    /\ UNCHANGED <<pixel, race, variant, dir, build, prevUsed, clock>>

CacheGenerate(p, writeOk) ==
    /\ phase = "cache"
    /\ Len(log) <= MaxOps
    /\ LET g == generate(dir, usedPatterns, p, writeOk, clock + 1)
       IN /\ dir' = g.dir
          /\ usedPatterns' = g.used
          /\ log' = Append(log, GenEntry(p, g))
          /\ clock' = clock + Cardinality(g.wrote)
    /\ UNCHANGED <<pixel, race, variant, dirExists, phase, build, prevUsed>>

CacheCleanup(failed) ==
    /\ phase = "cache"
    /\ Len(log) <= MaxOps
    /\ failed \subseteq cleanupTargets(dir, usedPatterns)
    /\ LET cl == cleanup(dir, usedPatterns, failed)
       IN /\ dir' = cl.dir
          /\ usedPatterns' = cl.used
          /\ log' = Append(log, CleanupEntry(dir, cl))
    /\ UNCHANGED <<pixel, race, variant, dirExists, phase, build, prevUsed, clock>>

NextCache ==
    \/ \E mkdirOk \in BOOLEAN : CacheNew(mkdirOk)
    \/ \E p \in CacheParams, writeOk \in BOOLEAN : CacheGenerate(p, writeOk)
    \/ \E failed \in SUBSET DOMAIN dir : CacheCleanup(failed)

SpecCache == Init /\ [][NextCache]_vars


\* ------------------------------------------- the pixel loop on its own
\* generateNoisePattern is called: createImageData, no pixel written.
\* pixel holds the arguments p, the number i of pixels written, and the
\* sample Z and the four channels data of the pixel written last.
StartPattern(p) ==
    /\ phase = "idle"
    /\ pixel = NoPixel
    /\ pixel' = [p |-> p, i |-> 0, Z |-> 0, data |-> <<>>]
    /\ UNCHANGED <<race, variant, dirExists, dir, usedPatterns, phase, build,
                   log, prevUsed, clock>>

\* one iteration of the loop of generateNoisePattern
GeneratePixel(Z) ==
    /\ pixel # NoPixel
    /\ pixel.i < MaxPixels
    /\ pixel' = [pixel EXCEPT !.i = @ + 1, !.Z = Z,
                              !.data = PixelOf(Z, pixel.p)]
    /\ UNCHANGED <<race, variant, dirExists, dir, usedPatterns, phase, build,
                   log, prevUsed, clock>>

InitPixel == Init /\ ~dirExists

NextPixel ==
    \/ /\ pixel = NoPixel
       /\ \E p \in PixelParams : StartPattern(p)
    \/ /\ pixel # NoPixel
       /\ \E Z \in PixelSamples : GeneratePixel(Z)

SpecPixel == InitPixel /\ [][NextPixel]_vars


\* -------------------------------------------- two builds interleaved
\* constructor: usedPatterns = new Set(); fs.existsSync(outputDir)
RaceConstructor(b) ==
    /\ race.pc[b] = "new"
    /\ race' = [race EXCEPT !.used[b] = {},
                            !.pc[b] = IF dirExists THEN "readdir"
                                      ELSE "mkdir"]
    /\ UNCHANGED <<pixel, variant, dirExists, dir, usedPatterns, phase,
                   build, log, prevUsed, clock>>

\* constructor: fs.mkdirSync(outputDir, { recursive: true })
RaceMkdir(b) ==
    /\ race.pc[b] = "mkdir"
    /\ dirExists' = TRUE
    /\ race' = [race EXCEPT !.pc[b] = "readdir"]
    /\ UNCHANGED <<pixel, variant, dir, usedPatterns, phase, build, log,
                   prevUsed, clock>>

\* cleanup: fs.readdirSync(outputDir); the entries forEach will unlink
RaceReaddir(b) ==
    /\ race.pc[b] = "readdir"
    /\ race' = [race EXCEPT !.files[b] = cleanupTargets(dir, race.used[b]),
                            !.pc[b] = "unlink"]
    /\ UNCHANGED <<pixel, variant, dirExists, dir, usedPatterns, phase,
                   build, log, prevUsed, clock>>

\* cleanup: fs.unlinkSync of one entry; it throws when the entry is gone
RaceUnlink(b, f) ==
    /\ race.pc[b] = "unlink"
    /\ f \in race.files[b]
    /\ IF f \in DOMAIN dir
       THEN /\ dir' = Remove(dir, {f})
            /\ race' = [race EXCEPT !.files[b] = @ \ {f},
                                    !.unlinked[b] = @ \cup {f}]
       ELSE /\ dir' = dir
            /\ race' = [race EXCEPT !.pc[b] = "failed"]
    /\ UNCHANGED <<pixel, variant, dirExists, usedPatterns, phase, build,
                   log, prevUsed, clock>>

\* cleanup: usedPatterns.clear(); then cache.generate(defaults) up to its
\* usedPatterns.add(filename)
RaceGenerateDefault(b) ==
    /\ race.pc[b] = "unlink"
    /\ race.files[b] = {}
    /\ race' = [race EXCEPT !.used[b] = {FilenameOf(DefaultParams)},
                            !.cur[b] = FilenameOf(DefaultParams),
                            !.pc[b] = "exists"]
    /\ UNCHANGED <<pixel, variant, dirExists, dir, usedPatterns, phase,
                   build, log, prevUsed, clock>>

\* generate: fs.existsSync(filePath); on a hit generate returns and the
\* caller hands out the declaration
RaceExistsSync(b) ==
    /\ race.pc[b] = "exists"
    /\ race' = IF race.cur[b] \in DOMAIN dir
               THEN [race EXCEPT !.decls[b] = @ \cup {race.cur[b]},
                                 !.pc[b] = "ready"]
               ELSE [race EXCEPT !.pc[b] = "write"]
    /\ UNCHANGED <<pixel, variant, dirExists, dir, usedPatterns, phase,
                   build, log, prevUsed, clock>>

\* a miss that hands out the declaration without writing the file
RaceWriteFileSkips(b) ==
    /\ race.pc[b] = "write"
    /\ race' = [race EXCEPT !.decls[b] = @ \cup {race.cur[b]},
                            !.pc[b] = "ready"]
    /\ UNCHANGED <<pixel, variant, dirExists, dir, usedPatterns, phase,
                   build, log, prevUsed, clock>>

\* generate: fs.writeFileSync(filePath, buffer); generate returns and the
\* caller hands out the declaration
RaceWriteFile(b) ==
    /\ race.pc[b] = "write"
    /\ dir' = Put(dir, race.cur[b], clock + 1)
    /\ clock' = clock + 1
    /\ race' = [race EXCEPT !.wrote[b] = @ \cup {race.cur[b]},
                            !.decls[b] = @ \cup {race.cur[b]},
                            !.pc[b] = "ready"]
    /\ UNCHANGED <<pixel, variant, dirExists, usedPatterns, phase, build,
                   log, prevUsed>>

\* the 'noise' utility up to its first filesystem call: a parsed value
\* goes to generate; a rejected one goes to generate(defaults) in the
\* 2-parameter variant and straight to the fallback declaration in the
\* opacity variant
RaceNoise(b, value) ==
    /\ race.pc[b] = "ready"
    /\ race.calls[b] < MaxRaceCalls
    /\ LET r == IF variant = 2 THEN parseValue(value)
                ELSE parseValueOp(value)
           name == IF r.ok THEN FilenameOf(r.p)
                   ELSE FilenameOf(DefaultParams)
       IN race' = IF r.ok \/ variant = 2
                  THEN [race EXCEPT !.calls[b] = @ + 1,
                                    !.used[b] = @ \cup {name},
                                    !.cur[b] = name,
                                    !.pc[b] = "exists"]
                  ELSE [race EXCEPT !.calls[b] = @ + 1,
                                    !.decls[b] = @ \cup {name}]
    /\ UNCHANGED <<pixel, variant, dirExists, dir, usedPatterns, phase,
                   build, log, prevUsed, clock>>

NextRace ==
    \E b \in Builds :
        \/ RaceConstructor(b)
        \/ RaceMkdir(b)
        \/ RaceReaddir(b)
        \/ \E f \in race.files[b] : RaceUnlink(b, f)
        \/ RaceGenerateDefault(b)
        \/ RaceExistsSync(b)
        \/ RaceWriteFile(b)
        \/ \E value \in Values : RaceNoise(b, value)

SpecRace == Init /\ [][NextRace]_vars


\* ================================================================ claims
Idx == 1..Len(log)

IsGen(i) == log[i].op = "generate"

IsCleanup(i) == log[i].op = "cleanup"

IsNoise(i) == log[i].op = "noise"

PatternNamed(f) == startsWith(f, NoisePrefix) /\ endsWith(f, PngSuffix)

\* C1 (as claimed): a pattern requested in two consecutive builds, whose
\* file the second build found in the directory, is neither deleted nor
\* written by the second build.
C1_CrossBuildReuse ==
    (build >= 2 /\ phase = "ready") =>
        \A f \in prevUsed \cap usedPatterns :
            (\E i \in Idx : IsCleanup(i) /\ f \in DOMAIN log[i].pre) =>
                \A i \in Idx : f \notin log[i].deleted /\ f \notin log[i].wrote

\* a run cleanup, generate ..., cleanup of one cache, every call returning
\* normally, that ends at the last logged call
CleanupRun(i, j) ==
    /\ i < j /\ j = Len(log)
    /\ IsCleanup(i) /\ IsCleanup(j)
    /\ ~log[i].threw /\ ~log[j].threw
    /\ \A k \in (i + 1)..(j - 1) : IsGen(k) /\ ~log[k].threw

KeyFiles(i, j) == {log[k].ret : k \in (i + 1)..(j - 1)}

\* C2 (as claimed): after cleanup, generate for the keys K, cleanup, the
\* directory holds exactly the files of K.
C2_ExactlyK ==
    \A i \in Idx, j \in Idx :
        CleanupRun(i, j) => DOMAIN dir = KeyFiles(i, j)

\* C2 (amended): after cleanup, generate for the keys K, cleanup, the
\* entries named noise-*.png are exactly the files of K, and the entries
\* not so named are the ones the first cleanup found, unchanged.
C2_CleanupSafety ==
    \A i \in Idx, j \in Idx :
        CleanupRun(i, j) =>
            /\ {f \in DOMAIN dir : PatternNamed(f)} = KeyFiles(i, j)
            /\ {f \in DOMAIN dir : ~PatternNamed(f)}
                   = {f \in DOMAIN log[i].pre : ~PatternNamed(f)}
            /\ \A f \in DOMAIN dir :
                   ~PatternNamed(f) => dir[f] = log[i].pre[f]

C2_Witness ==
    \E i \in Idx, j \in Idx :
        /\ CleanupRun(i, j)
        /\ Cardinality(KeyFiles(i, j)) >= 1
        /\ log[i].deleted # {}
        /\ \E f \in DOMAIN dir : ~PatternNamed(f)

\* C3: within one build, when generate(p) returns normally its file has
\* been written exactly once in that build; a later generate(p) writes
\* nothing, returns the same filename and finds the same content, which is
\* still the content of the file.
C3_CacheIdempotence ==
    /\ \A i \in Idx :
           (IsGen(i) /\ ~log[i].threw) =>
               /\ Cardinality({k \in 1..i : IsGen(k) /\ log[i].ret \in log[k].wrote}) = 1
               /\ log[i].ret \in DOMAIN dir
               /\ dir[log[i].ret] = log[i].content
    /\ \A i \in Idx, j \in Idx :
           (i < j /\ IsGen(i) /\ IsGen(j) /\ log[i].p = log[j].p
                  /\ ~log[i].threw) =>
               /\ ~log[j].threw
               /\ log[j].wrote = {}
               /\ log[j].ret = log[i].ret
               /\ log[j].content = log[i].content

C3_Witness ==
    \E i \in Idx, j \in Idx :
        /\ i < j /\ IsGen(i) /\ IsGen(j) /\ log[i].p = log[j].p
        /\ log[i].wrote # {} /\ ~log[j].threw
        /\ log[i].p # DefaultParams


\* the declaration a resolution returned
ResultDecl(r) == r.entries[Len(r.entries)].decl

\* C4 (as claimed): resolving "abc" does not raise and returns the very
\* declaration that resolving the default literal "128,20" returns.
C4_FallbackContainment ==
    \A i \in Idx :
        (variant = 2 /\ IsNoise(i) /\ log[i].value = Str(<<"a", "b", "c">>)
                     /\ ~log[i].fsErr) =>
            /\ ~log[i].threw
            /\ log[i].decl =
                   ResultDecl(noiseUtility(Str(<<"1", "2", "8", ",", "2", "0">>), dir, usedPatterns,
                                           TRUE, clock + 1))

\* C5 (as claimed): a call in which a directory create, a file write or a
\* file delete failed throws to the host and hands over no declaration.
C5_FsFailuresFatal ==
    \A i \in Idx : log[i].fsErr => (log[i].threw /\ log[i].decl = NoDecl)

\* an integer literal: optional sign, then digits only (white space around
\* it allowed, as the code trims)
IsIntLiteral(c) ==
    LET t == trim(c)
        body == IF t # <<>> /\ t[1] \in {"-", "+"} THEN Tail(t) ELSE t
    IN body # <<>> /\ \A k \in 1..Len(body) : IsDigit(body[k])

\* a literal of the arity of the running variant, every component an
\* integer literal
WellFormed(value) ==
    /\ value.t = "string"
    /\ LET parts == split(value.s, Comma)
       IN Len(parts) = variant /\ \A k \in 1..Len(parts) : IsIntLiteral(parts[k])

\* C6 (as claimed): every value that is not a literal of exactly the
\* variant's arity with integer-literal components is rejected and takes
\* the fallback.
C6_LiteralValidation ==
    \A i \in Idx : (IsNoise(i) /\ ~WellFormed(log[i].value)) => log[i].caught

\* C7: whatever the value, a resolution of 'noise' in which no filesystem
\* operation failed returns a declaration and throws nothing to the host.
C7_Containment ==
    \A i \in Idx :
        (IsNoise(i) /\ ~log[i].fsErr) =>
            /\ ~log[i].threw
            /\ log[i].decl # NoDecl
            /\ DeclFile(log[i].decl) \in DOMAIN dir
            /\ phase = "ready"

C7_Witness ==
    \E i \in Idx, j \in Idx :
        /\ IsNoise(i) /\ ~log[i].fsErr /\ log[i].caught
        /\ log[i].value \in {Undefined, NonString, Str(<<>>),
                             Str(<<",">>), Str(<<"1", ",">>)}
        /\ log[i].decl # NoDecl
        /\ IsGen(j) /\ j < i

\* the integer an integer literal denotes
LitVal(c) ==
    LET t == trim(c)
        body == IF t # <<>> /\ t[1] \in {"-", "+"} THEN Tail(t) ELSE t
    IN IF t[1] = "-" THEN 0 - DigitsToNat(body) ELSE DigitsToNat(body)

\* a literal of three integers written the way String() writes them
CanonicalTriple(value) ==
    /\ WellFormed(value)
    /\ \A k \in 1..3 :
           LET c == split(value.s, Comma)[k] IN c = IntToStr(LitVal(c))

TripleFile(value) ==
    LET c == split(value.s, Comma)
    IN NoisePrefix \o c[1] \o Dash \o c[2] \o Dash \o c[3] \o PngSuffix

OpacityFallback ==
    [backgroundImage |-> Url(<<"n", "o", "i", "s", "e", "-", "1", "2", "8",
                              "-", "5", "0", "-", "5", ".", "p", "n", "g">>),
     backgroundRepeat |-> "repeat"]

\* C8: in the opacity variant, a literal "m,s,o" of integers with o in
\* 0..100 has generate called with (m, s, o) and, the write succeeding,
\* its declaration points at noise-m-s-o.png; with o outside 0..100 the
\* fallback declaration is returned and generate is not called.
C8_OpacityBoundary ==
    \A i \in Idx :
        (variant = 3 /\ IsNoise(i) /\ CanonicalTriple(log[i].value)) =>
            LET c == split(log[i].value.s, Comma)
                o == LitVal(c[3])
            IN IF 0 <= o /\ o <= 100
               THEN /\ IsGen(i - 1)
                    /\ log[i - 1].p = <<LitVal(c[1]) * Scale,
                                        LitVal(c[2]) * Scale, o * Scale>>
                    /\ TripleFile(log[i].value) \in usedPatterns
                    /\ ~log[i].fsErr =>
                           /\ ~log[i].caught
                           /\ DeclFile(log[i].decl) = TripleFile(log[i].value)
                           /\ TripleFile(log[i].value) \in DOMAIN dir
               ELSE /\ log[i].caught
                    /\ log[i].decl = OpacityFallback
                    /\ ~IsGen(i - 1)
                    /\ TripleFile(log[i].value) \notin usedPatterns

C8_Witness ==
    \E i \in Idx :
        /\ variant = 3 /\ IsNoise(i)
        /\ log[i].value = Str(<<"7", ",", "9", ",", "1", "0", "0">>)
        /\ ~log[i].caught
        /\ DeclFile(log[i].decl) = <<"n", "o", "i", "s", "e", "-", "7", "-", "9", "-", "1", "0", "0", ".", "p", "n", "g">>

\* C9: in every build the log holds exactly one cleanup, right after the
\* construction and before every generate; no file a generate of the build
\* names is deleted afterwards, and every file written is still there.
C9_CleanupOrdering ==
    Len(log) >= 2 =>
        /\ IsCleanup(2)
        /\ Cardinality({i \in Idx : IsCleanup(i)}) = 1
        /\ \A i \in Idx :
               IsGen(i) =>
                   /\ i > 2
                   /\ \A j \in i..Len(log) :
                          FilenameOf(log[i].p) \notin log[j].deleted
                   /\ log[i].wrote \subseteq DOMAIN dir

C9_Witness ==
    /\ build = 2 /\ phase = "ready"
    /\ log[2].deleted # {}
    /\ Cardinality({i \in Idx : IsGen(i) /\ log[i].wrote # {}}) >= 2

\* tuples that differ from p by at most half a unit per component
Near(p) ==
    {[k \in 1..Len(p) |-> p[k] + d[k]] :
        d \in [1..Len(p) -> {0 - (Scale \div 2), 0, Scale \div 2}]}

RoundEq(p, q) == \A k \in 1..Len(p) : MathRound(p[k]) = MathRound(q[k])

HasDecl(i) == log[i].op \in {"addBase", "noise"} /\ log[i].decl # NoDecl

\* C10: every tuple that rounds to the same integers as the tuple generate
\* was called with gets the filename generate returned, and exists finds
\* that file; and the file a declaration points at was written under that
\* very name by a generate of the build.
C10_KeyDeterminism ==
    /\ \A i \in Idx :
           (IsGen(i) /\ ~log[i].threw) =>
               \A q \in Near(log[i].p) :
                   RoundEq(log[i].p, q) =>
                       /\ FilenameOf(q) = log[i].ret
                       /\ exists(dir, q)
    /\ \A i \in Idx :
           HasDecl(i) =>
               \E k \in 1..i :
                   /\ IsGen(k) /\ log[k].wrote = {DeclFile(log[i].decl)}
                   /\ DeclFile(log[i].decl) = FilenameOf(log[k].p)
                   /\ exists(dir, log[k].p)

C10_Witness ==
    \E i \in Idx, k \in Idx :
        /\ variant = 3 /\ IsNoise(i) /\ ~log[i].caught
        /\ k = i - 1 /\ IsGen(k) /\ log[k].wrote # {}
        /\ \E q \in Near(log[k].p) : q # log[k].p /\ RoundEq(log[k].p, q)

\* --------------------------------------------- getFilename on its own
\* numbers handed to getFilename: negative, zero, one- and two-digit
\* integers and one non-integer
KeyNums ==
    {n * Scale : n \in {0 - 11, 0 - 1, 0, 1, 11}} \cup {Scale + (Scale \div 2)}

KeyParams ==
    IF variant = 2 THEN {<<m, s>> : m \in KeyNums, s \in KeyNums}
    ELSE {<<m, s, o>> : m \in KeyNums, s \in KeyNums, o \in KeyNums}

KeyEntry(p) == [Blank EXCEPT !.op = "getFilename", !.p = p, !.ret = FilenameOf(p)]

\* cache.getFilename(...) called directly, twice
KeyLookup(p) ==
    /\ phase = "idle"
    /\ Len(log) < 2
    /\ log' = Append(log, KeyEntry(p))
    /\ UNCHANGED <<pixel, race, variant, dirExists, dir, usedPatterns, phase, build,
                   prevUsed, clock>>

InitKey == Init /\ ~dirExists

NextKey == \E p \in KeyParams : KeyLookup(p)

SpecKey == InitKey /\ [][NextKey]_vars

IsLookup(i) == log[i].op = "getFilename"

\* C11: two parameter tuples get the same filename only if their
\* components round to the same integers, negative components included.
C11_KeyInjectivity ==
    \A i \in Idx, j \in Idx :
        (IsLookup(i) /\ IsLookup(j) /\ log[i].ret = log[j].ret) =>
            RoundEq(log[i].p, log[j].p)

C11_Witness ==
    \E i \in Idx, j \in Idx :
        /\ IsLookup(i) /\ IsLookup(j)
        /\ log[i].p[1] < 0 /\ log[j].p[2] < 0
        /\ log[i].p[1] = log[j].p[2] /\ log[i].p[2] = log[j].p[1]
        /\ ~RoundEq(log[i].p, log[j].p)
        /\ log[i].ret # log[j].ret

\* a step that resolves a 'noise-opacity' class
OpacityStep ==
    /\ Len(log') = Len(log) + 1
    /\ log'[Len(log')].op = "noise-opacity"

\* C12: resolving 'noise-opacity' leaves the output directory and the live
\* set as they were, writes nothing, and returns a declaration holding the
\* '--noise-opacity' property with the value, and nothing else.
C12_OpacityFrame ==
    [][OpacityStep =>
          /\ dir' = dir
          /\ dirExists' = dirExists
          /\ usedPatterns' = usedPatterns
          /\ clock' = clock
          /\ DOMAIN log'[Len(log')].decl = {"noiseOpacity"}
          /\ log'[Len(log')].decl.noiseOpacity = log'[Len(log')].value]_vars

C12_Witness ==
    \E i \in Idx :
        /\ log[i].op = "noise-opacity"
        /\ log[i].decl = [noiseOpacity |-> "0.5"]
        /\ Cardinality(usedPatterns) >= 2

\* C13: once a build is initialised, and after each of its resolutions,
\* every entry named noise-*.png in the output directory is in the live
\* set and was named by a generate call of that build.
C13_EndOfBuildContents ==
    phase = "ready" =>
        \A f \in DOMAIN dir :
            PatternNamed(f) =>
                /\ f \in usedPatterns
                /\ \E i \in Idx : IsGen(i) /\ FilenameOf(log[i].p) = f

C13_Witness ==
    /\ phase = "ready" /\ build = 2
    /\ Calls(log) >= 1
    /\ log[2].deleted # {}
    /\ prevUsed \ DOMAIN dir # {}

\* a step in which cleanup() is called on the cache and returns
CleanupStep ==
    /\ Len(log') = Len(log) + 1
    /\ log'[Len(log')].op = "cleanup"
    /\ ~log'[Len(log')].threw

\* the entries named noise-*.png that are not in the live set
Stale == {f \in DOMAIN dir : PatternNamed(f) /\ f \notin usedPatterns}

\* C14: a cleanup that returns removes exactly the entries named
\* noise-*.png that are not in the live set, leaves every other entry with
\* its content, and leaves the live set empty.
C14_CleanupFrame ==
    [][CleanupStep =>
          /\ DOMAIN dir' = (DOMAIN dir) \ Stale
          /\ \A f \in DOMAIN dir' : dir'[f] = dir[f]
          /\ log'[Len(log')].deleted = Stale
          /\ usedPatterns' = {}]_vars

C14_Witness ==
    /\ log # <<>>
    /\ IsCleanup(Len(log)) /\ ~log[Len(log)].threw
    /\ log[Len(log)].deleted # {}
    /\ \E f \in DOMAIN dir : PatternNamed(f)
    /\ \E f \in DOMAIN dir : startsWith(f, NoisePrefix) /\ ~PatternNamed(f)
    /\ usedPatterns = {}

\* a step in which generate is called on the cache
GenerateStep ==
    /\ Len(log') = Len(log) + 1
    /\ log'[Len(log')].op = "generate"

\* C15: generate(p) adds getFilename(p) to the live set whether the file
\* was found or not, and when it returns it returns getFilename(p) and
\* the file of that name is in the output directory.
C15_GenerateContract ==
    [][GenerateStep =>
          LET e == log'[Len(log')]
              name == FilenameOf(e.p)
          IN /\ usedPatterns' = usedPatterns \cup {name}
             /\ ~e.threw => (e.ret = name /\ name \in DOMAIN dir')]_vars

\* a hit on a file that was not live, after a miss that wrote
C15_Witness ==
    /\ Len(log) >= 4
    /\ IsGen(Len(log)) /\ ~log[Len(log)].threw /\ log[Len(log)].wrote = {}
    /\ IsCleanup(Len(log) - 1) /\ ~log[Len(log) - 1].threw
    /\ \E i \in Idx : IsGen(i) /\ log[i].wrote # {}
                      /\ log[i].ret = log[Len(log)].ret
    /\ log[Len(log)].ret \in usedPatterns \cap DOMAIN dir

\* C18: at every point of a build, from the moment a declaration is handed
\* to the host, the file the declaration names is in the output directory:
\* the base rule, and the 'noise' utility's declaration of either branch.
C18_DeclarationsResolve ==
    \A i \in Idx :
        (log[i].op \in {"addBase", "noise"} /\ log[i].decl # NoDecl) =>
            /\ PatternNamed(DeclFile(log[i].decl))
            /\ DeclFile(log[i].decl) \in DOMAIN dir

\* the opacity variant's fallback, which calls no generate, followed in the
\* same build by a success that wrote another file
C18_Witness ==
    /\ variant = 3
    /\ \E i \in Idx, j \in Idx :
           /\ i < j
           /\ IsNoise(i) /\ log[i].caught /\ log[i].decl # NoDecl
           /\ ~IsGen(i - 1)
           /\ IsNoise(j) /\ ~log[j].caught /\ log[j].decl # NoDecl
           /\ IsGen(j - 1) /\ log[j - 1].wrote # {}
           /\ DeclFile(log[i].decl) # DeclFile(log[j].decl)

\* the cleanup the plugin runs on its new cache has returned
StartCleanupDone == Len(log) >= 2 /\ IsCleanup(2) /\ ~log[2].threw

\* C19: the cleanup a build runs on its newly constructed cache, when it
\* returns, has deleted every file named noise-*.png that it found in the
\* output directory, the files the previous build marked live among them.
C19_FreshCleanupDeletesAll ==
    StartCleanupDone =>
        /\ log[2].deleted = {f \in DOMAIN log[2].pre : PatternNamed(f)}
        /\ (prevUsed \cap DOMAIN log[2].pre) \subseteq log[2].deleted
        /\ \A f \in log[2].deleted :
               f \in DOMAIN dir => \E i \in Idx : IsGen(i) /\ log[i].wrote = {f}

C19_Witness ==
    /\ StartCleanupDone
    /\ build = 2
    /\ Cardinality(prevUsed \cap log[2].deleted) >= 2
    /\ (prevUsed \cap log[2].deleted) \ DOMAIN dir # {}

\* the loop has written a pixel
PixelWritten == pixel # NoPixel /\ pixel.i > 0

\* Z * stdDev + mean of the pixel, counted in 1/(Scale * Scale)
PixelRaw == (pixel.Z * pixel.p[2]) + (pixel.p[1] * Scale)

\* the intensity is clamp(floor(Z * stdDev + mean), 0, 255), the floor
\* being the one integer n with n <= x < n + 1, and red, green and blue
\* all carry it
IntensityOk ==
    LET n == pixel.data[1]
        U == Scale * Scale
    IN /\ n \in 0..ChannelMax
       /\ PixelRaw < 0 => n = 0
       /\ PixelRaw >= (ChannelMax + 1) * U => n = ChannelMax
       /\ (PixelRaw >= 0 /\ PixelRaw < (ChannelMax + 1) * U) =>
              (n * U <= PixelRaw /\ PixelRaw < (n + 1) * U)
       /\ pixel.data[2] = n
       /\ pixel.data[3] = n

\* 255 * (opacity / 100) as a fraction AlphaNum / AlphaDen
AlphaNum == ChannelMax * pixel.p[3]

AlphaDen == PercentBase * Scale

Dist(a, b) == IF a < b THEN b - a ELSE a - b

\* C17 (as claimed): the intensity is clamp(floor(Z*stdDev + mean), 0, 255)
\* on red, green and blue, and the alpha channel is 255 in the 2-parameter
\* variant and exactly 255*(opacity/100) in the opacity variant.
C17_ExactAlpha ==
    PixelWritten =>
        /\ IntensityOk
        /\ variant = 2 => pixel.data[4] = ChannelMax
        /\ variant = 3 => pixel.data[4] * AlphaDen = AlphaNum

\* C17 (amended): the intensity is clamp(floor(Z*stdDev + mean), 0, 255)
\* on red, green and blue; the alpha channel is 255 in the 2-parameter
\* variant, and in the opacity variant the integer nearest to
\* 255*(opacity/100), the even one when two are equally near.
C17_PixelChannels ==
    PixelWritten =>
        /\ IntensityOk
        /\ variant = 2 => pixel.data[4] = ChannelMax
        /\ variant = 3 =>
               /\ pixel.data[4] \in 0..ChannelMax
               /\ 2 * Dist(pixel.data[4] * AlphaDen, AlphaNum) <= AlphaDen
               /\ 2 * Dist(pixel.data[4] * AlphaDen, AlphaNum) = AlphaDen
                      => pixel.data[4] % 2 = 0

\* an intensity strictly inside the range whose floor drops a fraction,
\* with an alpha halfway between two integers
C17_Witness ==
    /\ PixelWritten
    /\ pixel.i = MaxPixels
    /\ variant = 3
    /\ pixel.data[1] \in 1..(ChannelMax - 1)
    /\ PixelRaw % (Scale * Scale) # 0
    /\ 2 * Dist(pixel.data[4] * AlphaDen, AlphaNum) = AlphaDen

\* a declaration build b has returned names f, and f is not in the
\* output directory
Dangling(b, f) == f \in race.decls[b] /\ f \notin DOMAIN dir

\* C16: with two builds interleaved at their filesystem calls, a file that
\* a returned declaration names can be missing from the shared directory,
\* and it is missing only because the other build's cleanup unlinked it;
\* the build on its own, before the other build's cleanup has unlinked
\* anything, never leaves a declaration without its file.
C16_CleanupRace ==
    \A b \in Builds :
        \A f \in race.decls[b] :
            /\ Dangling(b, f) => f \in race.unlinked[Other(b)]
            /\ race.unlinked[Other(b)] = {} => f \in DOMAIN dir

\* build b wrote f in its pass and returned a declaration naming it, and
\* the other build's cleanup has deleted f since
C16_Witness ==
    \E b \in Builds :
        \E f \in race.wrote[b] :
            /\ Dangling(b, f)
            /\ race.pc[b] = "ready"
            /\ f \in race.unlinked[Other(b)]
            /\ f \notin race.unlinked[b]

====
